---- MODULE Spec2Model ----
(***************************************************************************)
(* Model of the Airtable -> PostgreSQL webhook receiver (src/main.py).     *)
(*                                                                         *)
(* The handler airtable_webhook is split at the database calls it makes:   *)
(* connect, SELECT, INSERT or UPDATE, commit, rollback, close.  Requests   *)
(* run on worker threads, each on its own connection; the table is the     *)
(* committed content of PG_TABLE_NAME, a multiset of rows.  A connection's *)
(* uncommitted write is kept in pending and reaches the table at commit    *)
(* (READ COMMITTED: other connections never see it before).  Every         *)
(* database call may raise.                                                *)
(***************************************************************************)
EXTENDS Integers, Sequences, FiniteSets, Bags, TLC

\* Bounds of the model.
MaxReqs == 2        \* webhook deliveries in one behaviour
MaxDeletes == 1     \* row removals by another actor in one behaviour

Workers == {"w1", "w2"}     \* threads serving requests concurrently
Ids == {"rec1", "rec2"}     \* External Record Identifiers
Null == "NULL"              \* Python None, SQL NULL

Range(s) == {s[i] : i \in DOMAIN s}

IndexOf(s, x) == CHOOSE i \in DOMAIN s : s[i] = x

RECURSIVE DictKeys(_)
\* insertion-ordered keys of a dict built from a list of keys
DictKeys(list) ==
    IF list = <<>> THEN <<>>
    ELSE LET front == DictKeys(SubSeq(list, 1, Len(list) - 1))
             last  == list[Len(list)]
         IN  IF last \in Range(front) THEN front ELSE Append(front, last)

FIELDS_LIST ==
    <<"record_id", "Startup name", "PH1_Constitution_Location", "date_sourced">>

\* FIELD_MAP = {k: k for k in FIELDS_LIST}
FIELD_MAP == [k \in Range(FIELDS_LIST) |-> k]

FieldMapKeys == DictKeys(FIELDS_LIST)

FieldMapValues == [i \in 1..Len(FieldMapKeys) |-> FIELD_MAP[FieldMapKeys[i]]]

\* fields.get(at_name)
DictGet(fields, at_name) ==
    IF at_name \in DOMAIN fields THEN fields[at_name] ELSE Null

\* faulty variant: [fields[k] for k in FIELD_MAP if k in fields]
BuildValuesSkippingMissing(fields) ==
    LET present == SelectSeq(FieldMapKeys, LAMBDA k : k \in DOMAIN fields)
    IN  [i \in 1..Len(present) |-> fields[present[i]]]

build_values_from_fields(fields) ==
    [i \in 1..Len(FieldMapKeys) |-> DictGet(fields, FieldMapKeys[i])]

\* The statement text, kept as what the database reads from it: the column
\* list in order and the number of %s placeholders.
build_insert_query ==
    LET cols == <<"airtable_id">> \o FieldMapValues
    IN  [cols |-> cols, placeholders |-> Len(cols)]

build_update_query ==
    [set |-> FieldMapValues, where |-> "airtable_id",
     placeholders |-> Len(FieldMapValues) + 1]

\* faulty variant: the identifier appended instead of prepended
InsertValuesIdLast(airtable_id, fields) ==
    [i \in 1..(Len(FieldMapKeys) + 1) |->
        IF i <= Len(FieldMapKeys) THEN DictGet(fields, FieldMapKeys[i])
        ELSE airtable_id]

\* values passed to cur.execute by create_record_in_postgres
InsertValues(airtable_id, fields) ==
    <<airtable_id>> \o build_values_from_fields(fields)

\* values passed to cur.execute by update_record_in_postgres
UpdateValues(airtable_id, fields) ==
    build_values_from_fields(fields) \o <<airtable_id>>

\* cur.execute binds the i-th value to the i-th placeholder; every
\* placeholder needs a value and every value a placeholder.
BindsAll(query, values) == Len(values) = query.placeholders

\* The row an INSERT adds: the i-th column gets the i-th value.
InsertedRow(query, values) ==
    [c \in Range(query.cols) |-> values[IndexOf(query.cols, c)]]

\* The identifier an UPDATE filters by: the last placeholder.
UpdateKey(query, values) == values[Len(query.set) + 1]

\* faulty variant: a partial merge, SET col = COALESCE(value, col)
UpdatedRowMerging(query, values, row) ==
    [c \in DOMAIN row |->
        IF c \in Range(query.set) /\ values[IndexOf(query.set, c)] # Null
        THEN values[IndexOf(query.set, c)] ELSE row[c]]

\* A row after UPDATE ... SET col_i = value_i.
UpdatedRow(query, values, row) ==
    [c \in DOMAIN row |->
        IF c \in Range(query.set) THEN values[IndexOf(query.set, c)] ELSE row[c]]

(***************************************************************************)
(* Tables: bags of rows.                                                   *)
(***************************************************************************)
RECURSIVE SumOver(_, _)
SumOver(b, S) ==
    IF S = {} THEN 0
    ELSE LET r == CHOOSE x \in S : TRUE IN b[r] + SumOver(b, S \ {r})

\* rows of tbl selected by WHERE col = key
Matching(tbl, col, key) ==
    LET S == {r \in DOMAIN tbl : r[col] = key} IN [r \in S |-> tbl[r]]

CountId(tbl, id) == BagCardinality(Matching(tbl, "airtable_id", id))

\* the bag of rows an UPDATE turns the bag old into
UpdatedBag(query, values, old) ==
    LET T == {UpdatedRow(query, values, r) : r \in DOMAIN old}
    IN  [t \in T |->
            SumOver(old, {r \in DOMAIN old : UpdatedRow(query, values, r) = t})]

EmptyDict == [k \in {} |-> Null]

Example == ("Startup name" :> "Acme") @@ ("date_sourced" :> "2024-01-01")

Other ==
    ("record_id" :> "r1") @@ ("Startup name" :> "Beta")
        @@ ("PH1_Constitution_Location" :> "Madrid") @@ ("Name" :> "Carlos")

\* Field Sets the requests carry: the spec's example (two mapped keys
\* missing) and one with the other mapped keys and an unmapped key.
FieldPool == {Example, Other}

\* The payloads delivered: both Field Sets for the first identifier, the
\* example for the second.
Payloads ==
    {p \in [id : Ids, fields : FieldPool] : p.id = "rec1" \/ p.fields = Example}

NoPayload == [id |-> "", fields |-> EmptyDict]

NoWrite == [kind |-> "none"]

\* Python None, as the result of cur.fetchone()
None == [found |-> FALSE]

NoResp == [status |-> 0, success |-> FALSE, action |-> "", detail |-> ""]

NoPrev == [payload |-> NoPayload, ok |-> FALSE, action |-> "", hadRow |-> FALSE]

\* exception messages of the database driver
ConnectionLost == "server closed the connection unexpectedly"
UniqueViolation == "duplicate key value violates unique constraint"
InternalServerError == "Internal Server Error"

VARIABLES
    table,      \* committed rows of PG_TABLE_NAME
    unique,     \* whether the table has a unique constraint on airtable_id
    reqs,       \* deliveries received so far
    deletes,    \* removals by another actor so far
    pc,         \* each worker's position in airtable_webhook
    payload,    \* the AirtablePayload being served
    conn,       \* the worker's connection: "none", "open", "closed"
    pending,    \* the uncommitted write of the connection
    existing,   \* result of find_record_by_id: a row or None
    action,     \* the label sync_airtable_record returned
    exc,        \* message of the exception caught by `except Exception as e`
    raised,     \* what leaves the handler: "none", "http", "unhandled"
    resp,       \* the response sent
    log,        \* calls issued on the connection, in order
    committed,  \* whether conn.commit() returned
    matched,    \* rows the worker's UPDATE matched (-1: no UPDATE ran)
    snap,       \* table when the request arrived
    interfered, \* changes of the table by others since the request arrived
                \* (0, 1, or 2 for more)
    prev,       \* the worker's previous request
    pin,        \* inputs of the pure functions
    pout        \* their outputs

reqVars == <<pc, payload, conn, pending, existing, action, exc, raised, resp,
             log, committed, matched, snap, interfered, prev>>
pureVars == <<pin, pout>>
vars == <<table, unique, reqs, deletes, reqVars, pureVars>>

NoPure == [id |-> "", f |-> EmptyDict, g |-> EmptyDict]
NoOut == [vf |-> <<>>, vg |-> <<>>, insf |-> <<>>, insg |-> <<>>,
          updf |-> <<>>, updg |-> <<>>]

InitRequests ==
    /\ pc = [w \in Workers |-> "idle"]
    /\ payload = [w \in Workers |-> NoPayload]
    /\ conn = [w \in Workers |-> "none"]
    /\ pending = [w \in Workers |-> NoWrite]
    /\ existing = [w \in Workers |-> None]
    /\ action = [w \in Workers |-> ""]
    /\ exc = [w \in Workers |-> ""]
    /\ raised = [w \in Workers |-> "none"]
    /\ resp = [w \in Workers |-> NoResp]
    /\ log = [w \in Workers |-> <<>>]
    /\ committed = [w \in Workers |-> FALSE]
    /\ matched = [w \in Workers |-> -1]
    /\ snap = [w \in Workers |-> EmptyBag]
    /\ interfered = [w \in Workers |-> 0]
    /\ prev = [w \in Workers |-> NoPrev]

Init ==
    /\ table = EmptyBag
    /\ unique \in BOOLEAN
    /\ reqs = 0
    /\ deletes = 0
    /\ InitRequests
    /\ pin = NoPure
    /\ pout = NoOut

Active(w) == pc[w] # "idle"

\* what the worker's finished request was, kept when the next one arrives
Summary(w) ==
    IF pc[w] = "done"
    THEN [payload |-> payload[w],
          ok |-> /\ conn[w] = "closed"
                 /\ exc[w] = ""
                 /\ interfered[w] = 0,
          action |-> resp[w].action,
          hadRow |-> CountId(snap[w], payload[w].id) > 0]
    ELSE NoPrev

\* A request arrives at worker w; p is its payload, connected whether
\* get_conn() returned a connection.
Arrive(w, p, connected) ==
    /\ reqs' = reqs + 1
    /\ prev' = [prev EXCEPT ![w] = Summary(w)]
    /\ payload' = [payload EXCEPT ![w] = p]
    /\ pending' = [pending EXCEPT ![w] = NoWrite]
    /\ existing' = [existing EXCEPT ![w] = None]
    /\ action' = [action EXCEPT ![w] = ""]
    /\ exc' = [exc EXCEPT ![w] = ""]
    /\ committed' = [committed EXCEPT ![w] = FALSE]
    /\ matched' = [matched EXCEPT ![w] = -1]
    /\ snap' = [snap EXCEPT ![w] = table]
    /\ interfered' = [interfered EXCEPT ![w] = 0]
    /\ IF connected
       THEN /\ pc' = [pc EXCEPT ![w] = "find"]
            /\ conn' = [conn EXCEPT ![w] = "open"]
            /\ raised' = [raised EXCEPT ![w] = "none"]
            /\ resp' = [resp EXCEPT ![w] = NoResp]
            /\ log' = [log EXCEPT ![w] = <<"connect">>]
       ELSE /\ pc' = [pc EXCEPT ![w] = "done"]
            /\ conn' = [conn EXCEPT ![w] = "none"]
            /\ raised' = [raised EXCEPT ![w] = "unhandled"]
            /\ resp' = [resp EXCEPT ![w] =
                   [status |-> 500, success |-> FALSE, action |-> "",
                    detail |-> InternalServerError]]
            /\ log' = [log EXCEPT ![w] = <<>>]
    /\ UNCHANGED <<table, unique, deletes, pureVars>>

\* airtable_webhook line 138: conn = get_conn()
GetConn(w) ==
    /\ pc[w] \in {"idle", "done"}
    /\ reqs < MaxReqs
    /\ \E p \in Payloads : Arrive(w, p, TRUE)

\* get_conn() raises, outside the try block
GetConnFails(w) ==
    /\ pc[w] \in {"idle", "done"}
    /\ reqs < MaxReqs
    /\ \E p \in Payloads : Arrive(w, p, FALSE)

\* an exception raised inside the try block: control goes to `except`
Raise(w, msg, call) ==
    /\ pc' = [pc EXCEPT ![w] = "rollback"]
    /\ exc' = [exc EXCEPT ![w] = msg]
    /\ log' = [log EXCEPT ![w] = Append(@, call)]

\* faulty variant: the lookup filters by a column that never matches
FetchedNothing(tbl, airtable_id) == {None}

\* the row cur.fetchone() returns for SELECT * ... WHERE airtable_id = %s
Fetched(tbl, airtable_id) ==
    LET rows == DOMAIN Matching(tbl, "airtable_id", airtable_id)
    IN  IF rows = {} THEN {None} ELSE {[found |-> TRUE, row |-> r] : r \in rows}

\* find_record_by_id and the branch of sync_airtable_record on its result
FindRecordById(w) ==
    /\ pc[w] = "find"
    /\ \E row \in Fetched(table, payload[w].id) :
        /\ existing' = [existing EXCEPT ![w] = row]
        /\ pc' = [pc EXCEPT ![w] = IF row = None THEN "create" ELSE "update"]
    /\ log' = [log EXCEPT ![w] = Append(@, "select")]
    /\ UNCHANGED <<table, unique, reqs, deletes, payload, conn, pending, action,
                   exc, raised, resp, committed, matched, snap, interfered, prev, pureVars>>

FindRecordByIdFails(w) ==
    /\ pc[w] = "find"
    /\ Raise(w, ConnectionLost, "select")
    /\ UNCHANGED <<table, unique, reqs, deletes, payload, conn, pending,
                   existing, action, raised, resp, committed, matched, snap,
                   interfered, prev, pureVars>>

\* another open transaction holds an uncommitted INSERT of the same key
InsertWaits(w, key) ==
    /\ unique
    /\ \E o \in Workers \ {w} :
        /\ conn[o] = "open"
        /\ pending[o].kind = "insert"
        /\ pending[o].row["airtable_id"] = key

\* faulty variant: the connection in autocommit mode, the INSERT is committed at once
CreateRecordAutocommit(w) ==
    LET values == InsertValues(payload[w].id, payload[w].fields)
        query  == build_insert_query
        row    == InsertedRow(query, values)
    IN  /\ pc[w] = "create"
        /\ table' = table (+) SetToBag({row})
        /\ interfered' = [o \in Workers |->
              IF o # w /\ Active(o)
              THEN (IF interfered[o] = 0 THEN 1 ELSE 2) ELSE interfered[o]]
        /\ snap' = [o \in Workers |->
              IF o # w /\ Active(o) THEN EmptyBag ELSE snap[o]]
        /\ action' = [action EXCEPT ![w] = "created record"]
        /\ pc' = [pc EXCEPT ![w] = "commit"]
        /\ log' = [log EXCEPT ![w] = Append(@, "insert")]
        /\ UNCHANGED <<unique, reqs, deletes, payload, conn, pending, existing,
                       exc, raised, resp, committed, matched, prev, pureVars>>

\* create_record_in_postgres, and action = "created record"
CreateRecordInPostgres(w) ==
    LET values == InsertValues(payload[w].id, payload[w].fields)
        query  == build_insert_query
        row    == InsertedRow(query, values)
    IN  /\ pc[w] = "create"
        /\ BindsAll(query, values)
        /\ ~InsertWaits(w, row["airtable_id"])
        /\ ~(unique /\ CountId(table, row["airtable_id"]) > 0)
        /\ pending' = [pending EXCEPT ![w] = [kind |-> "insert", row |-> row]]
        /\ action' = [action EXCEPT ![w] = "created record"]
        /\ pc' = [pc EXCEPT ![w] = "commit"]
        /\ log' = [log EXCEPT ![w] = Append(@, "insert")]
        /\ UNCHANGED <<table, unique, reqs, deletes, payload, conn, existing,
                       exc, raised, resp, committed, matched, snap, interfered, prev, pureVars>>

\* the INSERT meets a committed row with the same key under a unique constraint
CreateRecordDuplicateKey(w) ==
    LET values == InsertValues(payload[w].id, payload[w].fields)
        query  == build_insert_query
        row    == InsertedRow(query, values)
    IN  /\ pc[w] = "create"
        /\ BindsAll(query, values)
        /\ ~InsertWaits(w, row["airtable_id"])
        /\ unique /\ CountId(table, row["airtable_id"]) > 0
        /\ Raise(w, UniqueViolation, "insert")
        /\ UNCHANGED <<table, unique, reqs, deletes, payload, conn, pending,
                       existing, action, raised, resp, committed, matched, snap,
                       interfered, prev, pureVars>>

CreateRecordFails(w) ==
    /\ pc[w] = "create"
    /\ Raise(w, ConnectionLost, "insert")
    /\ UNCHANGED <<table, unique, reqs, deletes, payload, conn, pending,
                   existing, action, raised, resp, committed, matched, snap,
                   interfered, prev, pureVars>>

\* another open transaction holds the lock of a row with this key
RowLocked(w, key) ==
    \E o \in Workers \ {w} :
        /\ conn[o] = "open"
        /\ pending[o].kind = "update"
        /\ pending[o].key = key
        /\ pending[o].old # EmptyBag

\* faulty variant: an upsert, the row is inserted when the UPDATE would match none
UpdateRecordUpserting(w) ==
    LET values == UpdateValues(payload[w].id, payload[w].fields)
        query  == build_update_query
        key    == UpdateKey(query, values)
        old    == Matching(table, query.where, key)
        row    == InsertedRow(build_insert_query,
                              InsertValues(payload[w].id, payload[w].fields))
    IN  /\ pc[w] = "update"
        /\ ~RowLocked(w, key)
        /\ pending' = [pending EXCEPT ![w] =
               IF old = EmptyBag
               THEN [kind |-> "insert", row |-> row]
               ELSE [kind |-> "update", key |-> key, old |-> old,
                     new |-> UpdatedBag(query, values, old)]]
        /\ matched' = [matched EXCEPT ![w] = BagCardinality(old)]
        /\ action' = [action EXCEPT ![w] = "updated record"]
        /\ pc' = [pc EXCEPT ![w] = "commit"]
        /\ log' = [log EXCEPT ![w] = Append(@, "update")]
        /\ UNCHANGED <<table, unique, reqs, deletes, payload, conn, existing,
                       exc, raised, resp, committed, snap, interfered, prev,
                       pureVars>>

\* update_record_in_postgres, and action = "updated record"
UpdateRecordInPostgres(w) ==
    LET values == UpdateValues(payload[w].id, payload[w].fields)
        query  == build_update_query
        key    == UpdateKey(query, values)
        old    == Matching(table, query.where, key)
    IN  /\ pc[w] = "update"
        /\ BindsAll(query, values)
        /\ ~RowLocked(w, key)
        /\ pending' = [pending EXCEPT ![w] =
               [kind |-> "update", key |-> key, old |-> old,
                new |-> UpdatedBag(query, values, old)]]
        /\ matched' = [matched EXCEPT ![w] = BagCardinality(old)]
        /\ action' = [action EXCEPT ![w] = "updated record"]
        /\ pc' = [pc EXCEPT ![w] = "commit"]
        /\ log' = [log EXCEPT ![w] = Append(@, "update")]
        /\ UNCHANGED <<table, unique, reqs, deletes, payload, conn, existing,
                       exc, raised, resp, committed, snap, interfered, prev, pureVars>>

UpdateRecordFails(w) ==
    /\ pc[w] = "update"
    /\ Raise(w, ConnectionLost, "update")
    /\ UNCHANGED <<table, unique, reqs, deletes, payload, conn, pending,
                   existing, action, raised, resp, committed, matched, snap,
                   interfered, prev, pureVars>>

\* the table once the write wr is committed
Applied(tbl, wr) ==
    IF wr.kind = "insert" THEN tbl (+) SetToBag({wr.row})
    ELSE IF wr.kind = "update" THEN (tbl (-) wr.old) (+) wr.new
    ELSE tbl

\* The response the client gets: the returned dict, the HTTPException, or,
\* for any other exception leaving the handler, the framework's plain 500.
Response(w, leaving) ==
    IF leaving = "http"
    THEN [status |-> 500, success |-> FALSE, action |-> "", detail |-> exc[w]]
    ELSE IF leaving = "unhandled"
    THEN [status |-> 500, success |-> FALSE, action |-> "",
          detail |-> InternalServerError]
    ELSE [status |-> 200, success |-> TRUE, action |-> action[w], detail |-> ""]

\* faulty variant: conn.close() at the end of the except block instead of in finally,
\* so an exception of rollback skips it
FinallyAfterRollbackOnly(w, call, leaving) ==
    /\ conn' = [conn EXCEPT ![w] = IF leaving = "unhandled" THEN @ ELSE "closed"]
    /\ pending' = [pending EXCEPT ![w] = IF leaving = "unhandled" THEN @ ELSE NoWrite]
    /\ log' = [log EXCEPT ![w] =
          IF leaving = "unhandled" THEN Append(@, call) ELSE @ \o <<call, "close">>]
    /\ raised' = [raised EXCEPT ![w] = leaving]
    /\ resp' = [resp EXCEPT ![w] = Response(w, leaving)]
    /\ pc' = [pc EXCEPT ![w] = "done"]

\* finally: conn.close(), after the call `call` of the try or except block;
\* then the return or the exception `leaving` the handler.  An open
\* transaction is discarded by close.
Finally(w, call, leaving) ==
    /\ conn' = [conn EXCEPT ![w] = "closed"]
    /\ pending' = [pending EXCEPT ![w] = NoWrite]
    /\ log' = [log EXCEPT ![w] = @ \o <<call, "close">>]
    /\ raised' = [raised EXCEPT ![w] = leaving]
    /\ resp' = [resp EXCEPT ![w] = Response(w, leaving)]
    /\ pc' = [pc EXCEPT ![w] = "done"]

\* a committed change of the table by worker w or by another actor (w = ""):
\* the requests in progress or answered no longer compare with their snapshot
Disturb(w) ==
    /\ interfered' = [o \in Workers |->
          IF o # w /\ Active(o) /\ table' # table
          THEN (IF interfered[o] = 0 THEN 1 ELSE 2) ELSE interfered[o]]
    /\ snap' = [o \in Workers |->
          IF o # w /\ Active(o) /\ table' # table THEN EmptyBag ELSE snap[o]]

\* conn.commit() returns; finally; return {"success": True, "action": action}
Commit(w) ==
    /\ pc[w] = "commit"
    /\ table' = Applied(table, pending[w])
    /\ committed' = [committed EXCEPT ![w] = TRUE]
    /\ Finally(w, "commit", "none")
    /\ Disturb(w)
    /\ UNCHANGED <<unique, reqs, deletes, payload, existing, action, exc,
                   matched, prev, pureVars>>

\* faulty variant: the exception of commit is swallowed and the handler returns
CommitFailsSwallowed(w) ==
    /\ pc[w] = "commit"
    /\ Finally(w, "commit", "none")
    /\ UNCHANGED <<table, unique, reqs, deletes, payload, existing, action, exc,
                   committed, matched, snap, interfered, prev, pureVars>>

\* conn.commit() raises: nothing of the transaction is committed
CommitFails(w) ==
    /\ pc[w] = "commit"
    /\ Raise(w, ConnectionLost, "commit")
    /\ UNCHANGED <<table, unique, reqs, deletes, payload, conn, pending,
                   existing, action, raised, resp, committed, matched, snap,
                   interfered, prev, pureVars>>

\* faulty variant: the except block rolls back and does not raise
RollbackSwallowed(w) ==
    /\ pc[w] = "rollback"
    /\ Finally(w, "rollback", "none")
    /\ UNCHANGED <<table, unique, reqs, deletes, payload, existing, action, exc,
                   committed, matched, snap, interfered, prev, pureVars>>

\* except: conn.rollback() returns, raise HTTPException(500, str(e)); finally
Rollback(w) ==
    /\ pc[w] = "rollback"
    /\ Finally(w, "rollback", "http")
    /\ UNCHANGED <<table, unique, reqs, deletes, payload, existing, action, exc,
                   committed, matched, snap, interfered, prev, pureVars>>

\* except: conn.rollback() raises; its exception leaves the except block and
\* the raise HTTPException line is never reached; finally
RollbackFails(w) ==
    /\ pc[w] = "rollback"
    /\ Finally(w, "rollback", "unhandled")
    /\ UNCHANGED <<table, unique, reqs, deletes, payload, existing, action, exc,
                   committed, matched, snap, interfered, prev, pureVars>>

\* Another actor removes the rows of an identifier (the system itself never
\* deletes) in the gap between a request's lookup and its UPDATE; it waits
\* for row locks like any writer.
ExternalDelete ==
    /\ deletes < MaxDeletes
    /\ \E id \in Ids :
        /\ CountId(table, id) > 0
        /\ \E o \in Workers : pc[o] = "update" /\ payload[o].id = id
        /\ ~\E o \in Workers :
              /\ conn[o] = "open" /\ pending[o].kind = "update"
              /\ pending[o].key = id /\ pending[o].old # EmptyBag
        /\ table' = table (-) Matching(table, "airtable_id", id)
    /\ deletes' = deletes + 1
    /\ Disturb("")
    /\ UNCHANGED <<unique, reqs, pc, payload, conn, pending, existing, action,
                   exc, raised, resp, log, committed, matched, prev, pureVars>>

Step(w) ==
    \/ FindRecordById(w)
    \/ FindRecordByIdFails(w)
    \/ CreateRecordInPostgres(w)
    \/ CreateRecordDuplicateKey(w)
    \/ CreateRecordFails(w)
    \/ UpdateRecordInPostgres(w)
    \/ UpdateRecordFails(w)
    \/ Commit(w)
    \/ CommitFails(w)
    \/ Rollback(w)
    \/ RollbackFails(w)

Next ==
    \/ \E w \in Workers : GetConn(w)
    \/ \E w \in Workers : GetConnFails(w)
    \/ \E w \in Workers : FindRecordById(w)
    \/ \E w \in Workers : FindRecordByIdFails(w)
    \/ \E w \in Workers : CreateRecordInPostgres(w)
    \/ \E w \in Workers : CreateRecordDuplicateKey(w)
    \/ \E w \in Workers : CreateRecordFails(w)
    \/ \E w \in Workers : UpdateRecordInPostgres(w)
    \/ \E w \in Workers : UpdateRecordFails(w)
    \/ \E w \in Workers : Commit(w)
    \/ \E w \in Workers : CommitFails(w)
    \/ \E w \in Workers : Rollback(w)
    \/ \E w \in Workers : RollbackFails(w)
    \/ ExternalDelete

Spec == Init /\ [][Next]_vars

FairSpec == Spec /\ \A w \in Workers : WF_vars(Step(w))

(***************************************************************************)
(* The pure functions of the Field Mapper on their own: every Field Set    *)
(* over the mapped keys and one unmapped key.                              *)
(***************************************************************************)
PureKeys == Range(FIELDS_LIST) \cup {"Email"}
PureValues == {"Acme", Null}
FieldSets == UNION {[S -> PureValues] : S \in SUBSET PureKeys}

PureInit ==
    /\ table = EmptyBag
    /\ unique = FALSE
    /\ reqs = 0
    /\ deletes = 0
    /\ InitRequests
    /\ pin = NoPure
    /\ pout = NoOut

\* two payloads with the same id arrive
ChoosePayloads ==
    /\ pin = NoPure
    /\ \E id \in Ids, f \in FieldSets, g \in FieldSets :
          pin' = [id |-> id, f |-> f, g |-> g]
    /\ UNCHANGED <<table, unique, reqs, deletes, reqVars, pout>>

\* the values create_record_in_postgres and update_record_in_postgres build
BuildValues ==
    /\ pin # NoPure
    /\ pout = NoOut
    /\ pout' = [vf   |-> build_values_from_fields(pin.f),
                vg   |-> build_values_from_fields(pin.g),
                insf |-> InsertValues(pin.id, pin.f),
                insg |-> InsertValues(pin.id, pin.g),
                updf |-> UpdateValues(pin.id, pin.f),
                updg |-> UpdateValues(pin.id, pin.g)]
    /\ UNCHANGED <<table, unique, reqs, deletes, reqVars, pin>>

PureNext == ChoosePayloads \/ BuildValues

PureSpec == PureInit /\ [][PureNext]_vars

(***************************************************************************)
(* The properties.                                                         *)
(***************************************************************************)
Done(w) == pc[w] = "done"

\* the request got its connection and no database call of it raised
RanWithoutFailure(w) == Done(w) /\ conn[w] = "closed" /\ exc[w] = ""

\* nobody else changed the table since the request arrived
Undisturbed(w) == interfered[w] = 0

\* the value a payload gives a mapped field, null when it has none
Given(fields, k) == IF k \in DOMAIN fields THEN fields[k] ELSE Null

Columns == {"airtable_id"} \cup {FIELD_MAP[k] : k \in Range(FIELDS_LIST)}

\* row holds, column by column, what the payload p says
Mirrors(row, p) ==
    /\ DOMAIN row = Columns
    /\ row["airtable_id"] = p.id
    /\ \A i \in 1..Len(FIELDS_LIST) :
          row[FIELD_MAP[FIELDS_LIST[i]]] = Given(p.fields, FIELDS_LIST[i])

RowsOf(tbl, id) == {r \in DOMAIN tbl : r["airtable_id"] = id}

Calls(w, call) == Cardinality({i \in DOMAIN log[w] : log[w][i] = call})

\* the rows of the other identifiers are what they were when w's request arrived
OthersUntouched(w) ==
    \A id \in Ids \ {payload[w].id} :
        Matching(table, "airtable_id", id) = Matching(snap[w], "airtable_id", id)

C3_ValuesFromFields ==
    pout # NoOut =>
        /\ Len(pout.vf) = Len(FIELDS_LIST)
        /\ \A i \in 1..Len(FIELDS_LIST) :
              pout.vf[i] = Given(pin.f, FIELDS_LIST[i])
        /\ (\A k \in Range(FIELDS_LIST) : Given(pin.f, k) = Given(pin.g, k))
              => /\ pout.vf = pout.vg
                 /\ pout.insf = pout.insg
                 /\ pout.updf = pout.updg

\* two Field Sets with different unmapped keys and a missing mapped key
C3_Witness ==
    /\ pout # NoOut
    /\ "Email" \in DOMAIN pin.f
    /\ "Email" \notin DOMAIN pin.g
    /\ "date_sourced" \notin DOMAIN pin.f
    /\ "Startup name" \in DOMAIN pin.f
    /\ pin.f["Startup name"] = "Acme"
    /\ \A k \in Range(FIELDS_LIST) : Given(pin.f, k) = Given(pin.g, k)

\* C4: a request whose lookup, insert, update or commit raised has called
\* rollback, is answered with status 500, has committed nothing, and, if
\* nobody else changed the table, leaves the table as it found it.
C4_FailureCommitsNothing ==
    \A w \in Workers :
        (Done(w) /\ exc[w] # "")
        => /\ Calls(w, "rollback") = 1
           /\ resp[w].status = 500
           /\ ~committed[w]
           /\ Undisturbed(w) => table = snap[w]

\* commit raised after an INSERT was executed
C4_Witness ==
    \E w \in Workers :
        /\ Done(w)
        /\ Undisturbed(w)
        /\ log[w] = <<"connect", "select", "insert", "commit", "rollback", "close">>
        /\ resp[w].status = 500

\* no call on a connection follows its close, and a request that is over
\* has no open connection
C5_ClosedLast ==
    \A w \in Workers :
        /\ pc[w] \in {"idle", "done"} => conn[w] # "open"
        /\ conn[w] = "open" => Calls(w, "close") = 0
        /\ conn[w] = "closed" =>
              /\ Calls(w, "close") = 1
              /\ log[w][Len(log[w])] = "close"
        /\ conn[w] = "none" => log[w] = <<>>

\* C5: every connection a request acquired is eventually closed, on every
\* path through the handler; close is the last call on it and no request
\* that is over holds an open connection.
C5_ConnectionClosed ==
    /\ []C5_ClosedLast
    /\ \A w \in Workers : (conn[w] = "open") ~> (conn[w] = "closed")

\* the connection was closed although rollback raised
C5_Witness ==
    \E w \in Workers :
        /\ Done(w)
        /\ raised[w] = "unhandled"
        /\ conn[w] = "closed"
        /\ log[w] = <<"connect", "select", "rollback", "close">>

\* C6 (as claimed): every exception raised by the lookup, the insert, the
\* update or the commit is answered with status 500 and its message as
\* detail, and leaves the handler in no other form.
C6_ExceptionMapped ==
    \A w \in Workers :
        (Done(w) /\ exc[w] # "")
        => /\ raised[w] = "http"
           /\ resp[w].status = 500
           /\ resp[w].detail = exc[w]

SentTwice(w) ==
    /\ RanWithoutFailure(w)
    /\ Undisturbed(w)
    /\ prev[w].ok
    /\ prev[w].payload = payload[w]
    /\ ~prev[w].hadRow

Idempotent(w) ==
    /\ prev[w].action = "created record"
    /\ resp[w].status = 200
    /\ resp[w].action = "updated record"
    /\ CountId(snap[w], payload[w].id) = 1
    /\ CountId(table, payload[w].id) = 1
    /\ table = snap[w]

\* the stored row of the example as the claim has it, four columns
ExampleRowClaimed(id) ==
    ("airtable_id" :> id) @@ ("Startup name" :> "Acme")
        @@ ("PH1_Constitution_Location" :> Null) @@ ("date_sourced" :> "2024-01-01")

\* the stored row of the example with its record_id column
ExampleRow(id) == ExampleRowClaimed(id) @@ ("record_id" :> Null)

AnsweredAfterCommit(w) ==
    /\ resp[w].status = 200 =>
          /\ Done(w)
          /\ committed[w]
          /\ Calls(w, "commit") = 1
          /\ Calls(w, "rollback") = 0
    /\ Calls(w, "insert") + Calls(w, "update") <= 1
    /\ pending[w].kind = "insert" => pending[w].row["airtable_id"] = payload[w].id
    /\ pending[w].kind = "update" =>
          \A r \in DOMAIN pending[w].old \cup DOMAIN pending[w].new :
              r["airtable_id"] = payload[w].id
    /\ (Done(w) /\ Undisturbed(w)) => OthersUntouched(w)

\* C10 (as claimed): 200 is answered only after commit returned and never
\* after rollback; every request issues exactly one lookup and at most one
\* write, on rows of its own identifier only.
C10_Claimed ==
    \A w \in Workers :
        /\ AnsweredAfterCommit(w)
        /\ Done(w) => Calls(w, "select") = 1

\* C10 (amended): as claimed, the one lookup being issued by every request
\* that got its connection; a request whose get_conn() raised issues no call.
C10_OneLookupOneWrite ==
    \A w \in Workers :
        /\ AnsweredAfterCommit(w)
        /\ (Done(w) /\ conn[w] = "closed") => Calls(w, "select") = 1
        /\ (Done(w) /\ conn[w] = "none") => log[w] = <<>>

\* a request was answered 200 after its update
C10_Witness ==
    \E w \in Workers :
        /\ Done(w)
        /\ resp[w].status = 200
        /\ Calls(w, "select") = 1
        /\ Calls(w, "update") = 1
        /\ matched[w] = 1

====
